---- MODULE Spec2Model ----
(***************************************************************************)
(* JSONDatabaseBackend (src/database.py): a mapping persisted in one data  *)
(* file, optionally encrypted, with its crypto data kept in a second file. *)
(* The store object's fields and the two files are the state; load, save,  *)
(* the reassignment of string_key and the proxied mapping operations are   *)
(* the actions.  crypto.py is not among the sources: its functions are     *)
(* modelled from the provider contract of spec.md, section 6.              *)
(***************************************************************************)
EXTENDS Integers, Sequences, FiniteSets, TLC

\* ------------------------------------------------------------- bounds
NumSalts == 1

\* Two secrets: the one a file was written under, and another.
Secrets == {"S", "T"}
Salts == 0..(NumSalts - 1)
Vals == {"x"}

\* ------------------------------------------------------------- values
\* A Python dict key: its type and its text.  1 and "a" are <<"int","1">>
\* and <<"str","a">>.
Keys == {<<"str", "a">>, <<"int", "1">>}

None == [tag |-> "None", items |-> <<>>]
PyDict(f) == [tag |-> "dict", items |-> f]
EmptyDict == PyDict(<<>>)
Dicts == {PyDict(f) : f \in UNION {[D -> Vals] : D \in SUBSET Keys}}
Defaults == {None, EmptyDict}

\* A mutable value nested in a mapping: a list, as built ("[]") and after
\* an append to it ("[m]"); a default that holds one.
NestedKey == <<"str", "a">>
NestedDefault == PyDict([k \in {NestedKey} |-> "[]"])
AppendNested(d) ==
    IF d # None /\ NestedKey \in DOMAIN d.items /\ d.items[NestedKey] = "[]"
    THEN PyDict([k \in DOMAIN d.items |->
                    IF k = NestedKey THEN "[m]" ELSE d.items[k]])
    ELSE d

\* json.dumps: every key is written as a JSON string (str(1) = "1"), so the
\* text maps key texts to values and forgets the key's type.
json_dumps(d) ==
    IF d = None
    THEN [null |-> TRUE, obj |-> <<>>]
    ELSE [null |-> FALSE,
          obj |-> [t \in {k[2] : k \in DOMAIN d.items} |->
                      d.items[CHOOSE k \in DOMAIN d.items : k[2] = t]]]

\* json.loads: every key of a JSON object comes back as a str.
json_loads(t) ==
    IF t.null
    THEN None
    ELSE PyDict([k \in {<<"str", x>> : x \in DOMAIN t.obj} |-> t.obj[k[2]]])

\* str.encode / bytes.decode under encryption_text_encoding.
encode(t) == [encoding |-> "utf-8", text |-> t]
decode(b) == b.text

\* copy.deepcopy: an equal value.
deepcopy(v) == v

\* ------------------------------------------------------------- crypto
\* The crypto data of a secret: a salt, a hash that verifies the secret,
\* and the key that encrypt and decrypt use.
DeriveHash(secret, salt) == <<"hash", secret, salt>>
DeriveKey(secret, salt) == <<"key", secret, salt>>
NoCrypto == [salt |-> -1, hash |-> <<"hash", "", -1>>, key |-> <<"key", "", -1>>]

make_new(secret, salt) ==
    [salt |-> salt, hash |-> DeriveHash(secret, salt), key |-> DeriveKey(secret, salt)]

check_string_key(cd, secret) ==
    IF cd.hash = DeriveHash(secret, cd.salt) THEN "ok" ELSE "InvalidKey"

encrypt(cd, bytes) == [fmt |-> "cipher", key |-> cd.key, body |-> bytes.text]

decrypt(cd, content) ==
    IF content.fmt = "cipher" /\ content.key = cd.key
    THEN [err |-> "none", bytes |-> encode(content.body)]
    ELSE [err |-> "DecryptError", bytes |-> encode(json_dumps(None))]

interop_dump(cd) == [salt |-> cd.salt, hash |-> cd.hash]

interop_load(content, secret) ==
    [salt |-> content.salt, hash |-> content.hash, key |-> DeriveKey(secret, content.salt)]

\* ------------------------------------------------------------- files
NoKey == <<"key", "", -1>>
NoContent == [fmt |-> "none", key |-> NoKey, body |-> json_dumps(None)]
NoMeta == [salt |-> -1, hash |-> <<"hash", "", -1>>]
AbsentData == [kind |-> "absent", content |-> NoContent]
AbsentMeta == [kind |-> "absent", content |-> NoMeta]
Directory == [kind |-> "dir", content |-> NoContent]
PlainText(t) == [fmt |-> "text", key |-> NoKey, body |-> t]
RegularFile(c) == [kind |-> "file", content |-> c]

VARIABLES
    loaded, db, crypto_data, string_key,   \* the store object's fields
    default, encryption,                   \* its configuration
    dataFile, metaFile,                    \* db_file_name, crypto_data_file_name
    last,                                  \* the last call and how it ended
    encUnder,        \* the crypto data (as dumped) that encrypted dataFile
    savedDb,         \* the mapping of the last save that completed
    savedKey,        \* string_key at the last save that completed
    savesComplete,   \* no save has raised after passing its first check
    loadKey,         \* string_key at this object's last load, if it returned
    streak,          \* completed saves in a row, nothing in between (0, 1, 2)
    steadyKey,       \* string_key, if unchanged since the last completed save
    shared,          \* what _db shares with the caller's default object
    track            \* the history variables that are being recorded

vars == <<loaded, db, crypto_data, string_key, default, encryption,
          dataFile, metaFile, last, encUnder, savedDb, savedKey,
          savesComplete, loadKey, streak, steadyKey, shared, track>>

\* A history variable takes its new value when its group is recorded.
Rec(group, new, old) == IF group \in track THEN new ELSE old

Store == [loaded |-> loaded, db |-> db, crypto_data |-> crypto_data,
          string_key |-> string_key, shared |-> shared]
Disk == [data |-> dataFile, meta |-> metaFile]

\* JSONDatabaseBackend.__init__
NewStore(key) == [loaded |-> FALSE, db |-> None, crypto_data |-> NoCrypto,
                  string_key |-> key, shared |-> "none"]

\* ------------------------------------------------------------- save
\* What can go wrong in the environment during one call: the verification
\* primitive raising something other than InvalidKeyError, the opening
\* or writing of one of the two files raising, the crypto data file being
\* unreadable or rejected by the provider (load, lines 34-35), the text
\* read not being JSON (load, lines 32 and 39).
Faults == {"none", "verify", "data", "meta", "read", "parse"}

SaveResult(st, dk, err, writes, verdict, regen, under) ==
    [st |-> st, dk |-> dk, err |-> err, writes |-> writes,
     verdict |-> verdict, regen |-> regen, under |-> under, ran |-> TRUE]

\* line 43: the assertion that guards save
save_guard(st) == st.db # None

save_verdict_any_error(st, new, fault) ==
    IF new THEN "skipped"
    ELSE IF st.crypto_data = NoCrypto \/ fault = "verify" THEN "InvalidKey"
    ELSE check_string_key(st.crypto_data, st.string_key)

\* lines 46-52: the check of string_key against crypto_data; only
\* InvalidKeyError is caught
save_verdict(st, new, fault) ==
    IF new THEN "skipped"
    ELSE IF st.crypto_data = NoCrypto THEN "AttributeError"
    ELSE IF fault = "verify" THEN "ProviderError"
    ELSE check_string_key(st.crypto_data, st.string_key)

save_regenerate_new_only(new, verdict) == new
save_regenerate_always(new, verdict) == TRUE

\* line 53
save_regenerate(new, verdict) == new \/ verdict = "InvalidKey"

save_encrypt_data_stale(before, after) == before

\* line 60: encryption uses self.crypto_data as it is after lines 53-54
save_encrypt_data(before, after) == after

save_plain_text_of_default(st) == json_dumps(default)

\* line 57
save_plain_text(st) == json_dumps(st.db)

save_write_order_swapped == <<"meta", "data">>

\* lines 61-64: the data file is opened and written, then the crypto data file
save_write_order == <<"data", "meta">>

WriteOne(dk, which, ct, md) ==
    IF which = "data"
    THEN [dk EXCEPT !.data = RegularFile(ct)]
    ELSE [dk EXCEPT !.meta = RegularFile(md)]

WriteFiles(order, fault, ct, md, dk) ==
    IF fault = order[1]
    THEN [dk |-> dk, err |-> "IOError", writes |-> <<>>]
    ELSE LET dk1 == WriteOne(dk, order[1], ct, md)
         IN  IF fault = order[2]
             THEN [dk |-> dk1, err |-> "IOError", writes |-> <<order[1]>>]
             ELSE [dk |-> WriteOne(dk1, order[2], ct, md), err |-> "none",
                   writes |-> <<order[1], order[2]>>]

save_uses_crypto_always == TRUE

\* line 44: the check and the making of crypto_data are under
\* `if self.encryption`
save_uses_crypto == encryption

\* JSONDatabaseBackend.save (self, _new)
save(st, dk, new, fault, salt) ==
    IF ~save_guard(st)
    THEN SaveResult(st, dk, "NotLoaded", <<>>, "skipped", FALSE, NoMeta)
    ELSE LET verdict == IF save_uses_crypto THEN save_verdict(st, new, fault)
                        ELSE "skipped"
         IN  IF verdict \notin {"skipped", "ok", "InvalidKey"}
             THEN SaveResult(st, dk, verdict, <<>>, verdict, FALSE, NoMeta)
             ELSE LET regen == save_uses_crypto /\ save_regenerate(new, verdict)
                      cd == IF regen THEN make_new(st.string_key, salt)
                                     ELSE st.crypto_data
                      st1 == [st EXCEPT !.crypto_data = cd]
                  IN  IF ~encryption
                      THEN IF fault = "data"
                           THEN SaveResult(st1, dk, "IOError", <<>>, verdict,
                                           regen, NoMeta)
                           ELSE SaveResult(st1,
                                    [dk EXCEPT !.data = RegularFile(
                                        PlainText(save_plain_text(st)))],
                                    "none", <<"data">>, verdict, regen, NoMeta)
                      ELSE LET used == save_encrypt_data(st.crypto_data, cd)
                               ct == encrypt(used, encode(json_dumps(st.db)))
                               w == WriteFiles(save_write_order, fault, ct,
                                               interop_dump(cd), dk)
                           IN  SaveResult(st1, w.dk, w.err, w.writes, verdict,
                                          regen, interop_dump(used))

\* ------------------------------------------------------------- load
NoSave(st, dk, err) ==
    [st |-> st, dk |-> dk, err |-> err, writes |-> <<>>,
     verdict |-> "skipped", regen |-> FALSE, under |-> NoMeta, ran |-> FALSE]

load_may_create_always(create) == TRUE

\* line 22
load_may_create(create) == create

load_create_not_new == FALSE

\* line 26: the creation path saves with _new = True
load_create_new == TRUE

load_copy_shallow == "shallow"

\* line 24: the default is copied with copy.deepcopy
load_copy == "deep"

\* What a copy of that kind shares with its original: a deep copy nothing,
\* a shallow copy the nested values.
Shares(kind) == IF kind = "deep" THEN "none" ELSE "nested"

load_resaves_never(err) == FALSE

load_resaves_always(err) == TRUE

\* line 40: the save of the existing-file path is reached when lines 34-39
\* have not raised
load_resaves(err) == err = "none"

\* JSONDatabaseBackend.load (self, create_if_nonexistent)
load(st, dk, create, fault, salt) ==
    IF dk.data.kind = "absent"
    THEN IF ~load_may_create(create)
         THEN NoSave(st, dk, "NotFound")
         ELSE save([st EXCEPT !.db = deepcopy(default), !.loaded = TRUE,
                              !.shared = Shares(load_copy)],
                   dk, load_create_new, fault, salt)
    ELSE IF dk.data.kind # "file"
    THEN NoSave(st, dk, "InvalidTarget")
    ELSE IF ~encryption
    THEN IF dk.data.content.fmt # "text" \/ fault = "parse"
         THEN NoSave(st, dk, "Corrupt")
         ELSE NoSave([st EXCEPT !.db = json_loads(dk.data.content.body),
                                !.loaded = TRUE, !.shared = "none"],
                     dk, "none")
    ELSE IF dk.meta.kind # "file"
    THEN NoSave(st, dk, "FileNotFoundError")
    ELSE IF fault = "read"
    THEN NoSave(st, dk, "MetadataError")
    ELSE LET cd == interop_load(dk.meta.content, st.string_key)
             st1 == [st EXCEPT !.crypto_data = cd]
             pt == decrypt(cd, dk.data.content)
             err == IF pt.err # "none" THEN pt.err
                    ELSE IF fault = "parse" THEN "Corrupt"
                    ELSE "none"
             st2 == IF err # "none" THEN st1
                    ELSE [st1 EXCEPT !.db = json_loads(decode(pt.bytes)),
                                     !.shared = "none"]
         IN  IF ~load_resaves(err)
             THEN IF err # "none"
                  THEN NoSave(st2, dk, err)
                  ELSE NoSave([st2 EXCEPT !.loaded = TRUE], dk, "none")
             ELSE LET r == save(st2, dk, FALSE, fault, salt)
                  IN  IF err # "none"
                      THEN [r EXCEPT !.err = err]
                      ELSE IF r.err # "none"
                      THEN r
                      ELSE [r EXCEPT !.st.loaded = TRUE]

\* ------------------------------------------------------------- mapping
\* line 74: the names of the dict methods that are forwarded
ReadNames == {"__contains__", "__getitem__", "copy", "fromkeys", "get",
              "items", "keys", "values"}
WriteNames == {"__setitem__", "__delitem__", "clear", "pop", "popitem",
               "setdefault", "update"}
ProxyNames == ReadNames \cup WriteNames

Without(f, k) == [x \in DOMAIN f \ {k} |-> f[x]]
With(f, k, v) == [x \in DOMAIN f \cup {k} |-> IF x = k THEN v ELSE f[x]]

\* The dict method `name` applied to the dict d with the arguments k and v
\* (popitem: k is the key that was inserted last).
dict_method(d, name, k, v) ==
    LET f == d.items
        same == [db |-> d, err |-> "none"]
        gone == [db |-> PyDict(Without(f, k)), err |-> "none"]
        missing == [db |-> d, err |-> "KeyError"]
    IN  CASE name \in {"__setitem__", "update"} ->
               [db |-> PyDict(With(f, k, v)), err |-> "none"]
          [] name = "setdefault" ->
               IF k \in DOMAIN f THEN same
               ELSE [db |-> PyDict(With(f, k, v)), err |-> "none"]
          [] name \in {"__delitem__", "pop", "popitem"} ->
               IF k \in DOMAIN f THEN gone ELSE missing
          [] name = "clear" -> [db |-> EmptyDict, err |-> "none"]
          [] name = "__getitem__" ->
               IF k \in DOMAIN f THEN same ELSE missing
          [] OTHER -> same

\* getattr (self._db, function_name) (*args, **kwargs)
proxy(st, name, k, v) ==
    IF st.db = None
    THEN [st |-> st, err |-> "AttributeError"]
    ELSE LET r == dict_method(st.db, name, k, v)
         IN  [st |-> [st EXCEPT !.db = r.db], err |-> r.err]

proxy_function_saving(st, dk, name, k, v) ==
    LET r == proxy(st, name, k, v)
        w == save(r.st, dk, FALSE, "none", 0)
    IN  [st |-> w.st, dk |-> w.dk, err |-> r.err]

\* line 72: the function that proxy_function_creator returns does the
\* forwarded call and nothing else
proxy_function(st, dk, name, k, v) ==
    LET r == proxy(st, name, k, v)
    IN  [st |-> r.st, dk |-> dk, err |-> r.err]

\* ------------------------------------------------------------- actions
Call(op, err, create, fault, r) ==
    [op |-> op, err |-> err, create |-> create, fault |-> fault,
     ran |-> r.ran, verdict |-> r.verdict, regen |-> r.regen,
     writes |-> r.writes]

NoCall(op, err) == Call(op, err, FALSE, "none", NoSave(Store, Disk, err))

Has(seq, x) == \E i \in DOMAIN seq : seq[i] = x

\* The inputs that make a difference to a call that ended as r: a fault
\* at a step the call came to, a salt that was drawn.
Effective(r, fault, salt) ==
    /\ \/ fault = "none"
       \/ fault = "verify" /\ r.verdict # "skipped"
       \/ fault \in {"data", "meta"} /\ r.err = "IOError"
       \/ fault = "read" /\ r.err = "MetadataError"
       \/ fault = "parse" /\ r.err = "Corrupt"
    /\ r.regen \/ salt = 0

\* The fields and files after a load or a save that ended as r.
Outcome(r) ==
    /\ loaded' = r.st.loaded
    /\ db' = r.st.db
    /\ crypto_data' = r.st.crypto_data
    /\ string_key' = r.st.string_key
    /\ shared' = r.st.shared
    /\ dataFile' = r.dk.data
    /\ metaFile' = r.dk.meta
    /\ encUnder' = Rec("disk", IF encryption /\ Has(r.writes, "data")
                                THEN r.under ELSE encUnder, encUnder)
    /\ savedDb' = Rec("disk", IF r.ran /\ r.err = "none"
                               THEN {r.st.db} ELSE savedDb, savedDb)
    /\ savedKey' = Rec("disk", IF r.ran /\ r.err = "none"
                                THEN {r.st.string_key} ELSE savedKey, savedKey)
    /\ savesComplete' = Rec("disk", savesComplete
                             /\ ~(r.ran /\ r.err \notin {"none", "NotLoaded"}),
                             savesComplete)
    /\ steadyKey' = Rec("steady", IF r.ran /\ r.err = "none"
                                   THEN {r.st.string_key} ELSE steadyKey,
                         steadyKey)
    /\ UNCHANGED <<default, encryption, track>>

\* store.load (create_if_nonexistent = create)
Load(create, fault, salt) ==
    LET r == load(Store, Disk, create, fault, salt)
    IN  /\ Effective(r, fault, salt)
        /\ Outcome(r)
        /\ last' = Rec("call", Call("load", r.err, create, fault, r), last)
        /\ loadKey' = Rec("keys", IF r.err = "none" THEN {string_key} ELSE {},
                           loadKey)
        /\ streak' = Rec("streak", IF r.ran /\ r.err = "none" THEN 1 ELSE 0,
                          streak)

\* store.save (): _new keeps its default, False
Save(fault, salt) ==
    LET r == save(Store, Disk, FALSE, fault, salt)
    IN  /\ Effective(r, fault, salt)
        /\ Outcome(r)
        /\ last' = Rec("call", Call("save", r.err, FALSE, fault, r), last)
        /\ streak' = Rec("streak", IF r.err # "none" THEN 0
                                    ELSE IF streak = 0 THEN 1 ELSE 2, streak)
        /\ UNCHANGED loadKey

\* store.string_key = k
SetKey(k) ==
    /\ string_key' = k
    /\ last' = Rec("call", NoCall("setkey", "none"), last)
    /\ steadyKey' = Rec("steady", steadyKey \cap {k}, steadyKey)
    /\ streak' = Rec("streak", 0, streak)
    /\ UNCHANGED <<loaded, db, crypto_data, default, encryption, dataFile,
                   metaFile, encUnder, savedDb, savedKey, savesComplete,
                   loadKey, shared, track>>

\* store.<name> (k, v), one of the forwarded dict methods
MapOp(name, k, v) ==
    LET r == proxy_function(Store, Disk, name, k, v)
    IN  /\ name = "popitem" /\ db # None /\ db.items # <<>>
              => k \in DOMAIN db.items
        /\ loaded' = r.st.loaded
        /\ db' = r.st.db
        /\ crypto_data' = r.st.crypto_data
        /\ string_key' = r.st.string_key
        /\ shared' = r.st.shared
        /\ dataFile' = r.dk.data
        /\ metaFile' = r.dk.meta
        /\ last' = Rec("call", NoCall("proxy", r.err), last)
        /\ streak' = Rec("streak", 0, streak)
        /\ UNCHANGED <<default, encryption, encUnder, savedDb, savedKey,
                       savesComplete, loadKey, steadyKey, track>>

\* A new JSONDatabaseBackend object on the same files, as after a restart.
NewInstance(k) ==
    LET st == NewStore(k)
    IN  /\ loaded' = st.loaded
        /\ db' = st.db
        /\ crypto_data' = st.crypto_data
        /\ string_key' = st.string_key
        /\ shared' = st.shared
        /\ loadKey' = {}
        /\ last' = Rec("call", NoCall("init", "none"), last)
        /\ steadyKey' = Rec("steady", steadyKey \cap {k}, steadyKey)
        /\ streak' = Rec("streak", 0, streak)
        /\ UNCHANGED <<default, encryption, dataFile, metaFile, encUnder,
                       savedDb, savedKey, savesComplete, track>>

\* The caller changes the object that was passed as default: at the top
\* (default.clear ()) or in the value nested in it (default ["a"].append).
MutateDefault(depth) ==
    /\ default # None
    /\ depth = "top" => default # EmptyDict
    /\ depth = "nested" => AppendNested(default) # default
    /\ default' = IF depth = "top" THEN EmptyDict ELSE AppendNested(default)
    /\ db' = IF depth = "nested" /\ shared = "nested"
             THEN AppendNested(db) ELSE db
    /\ last' = Rec("call", NoCall("mutate_default", "none"), last)
    /\ streak' = Rec("streak", 0, streak)
    /\ UNCHANGED <<loaded, crypto_data, string_key, encryption, dataFile,
                   metaFile, encUnder, savedDb, savedKey, savesComplete,
                   loadKey, steadyKey, shared, track>>

\* The caller changes the value nested in the store's mapping
\* (store ["a"].append).
MutateStored ==
    /\ AppendNested(db) # db
    /\ db' = AppendNested(db)
    /\ default' = IF shared = "nested" THEN AppendNested(default) ELSE default
    /\ last' = Rec("call", NoCall("mutate_stored", "none"), last)
    /\ streak' = Rec("streak", 0, streak)
    /\ UNCHANGED <<loaded, crypto_data, string_key, encryption, dataFile,
                   metaFile, encUnder, savedDb, savedKey, savesComplete,
                   loadKey, steadyKey, shared, track>>

InitFrom(groups, defaults) ==
    /\ track = groups
    /\ default \in defaults
    /\ encryption \in BOOLEAN
    /\ \E k \in Secrets :
          /\ loaded = NewStore(k).loaded
          /\ db = NewStore(k).db
          /\ crypto_data = NewStore(k).crypto_data
          /\ string_key = NewStore(k).string_key
          /\ shared = NewStore(k).shared
    /\ dataFile \in {AbsentData, Directory}
    /\ metaFile = AbsentMeta
    /\ last = NoCall("init", "none")
    /\ encUnder = NoMeta
    /\ savedDb = {}
    /\ savedKey = {}
    /\ savesComplete = TRUE
    /\ loadKey = {}
    /\ streak = 0
    /\ steadyKey = {}

InitRecording(groups) == InitFrom(groups, Defaults)

\* Init: the object as constructed, the files not yet written; the calls
\* are recorded.
Init == InitRecording({"call"})
InitDisk == InitRecording({"disk"})
InitKeys == InitRecording({"call", "keys"})
InitResave == InitRecording({"call", "streak"})
InitCrash == InitRecording({"call", "steady"})
InitAlias == InitFrom({"call"}, {NestedDefault})

Next ==
    \/ \E create \in BOOLEAN, fault \in Faults, salt \in Salts :
          Load(create, fault, salt)
    \/ \E fault \in Faults, salt \in Salts : Save(fault, salt)
    \/ \E k \in Secrets : SetKey(k)
    \/ \E name \in ProxyNames, k \in Keys, v \in Vals : MapOp(name, k, v)
    \/ \E k \in Secrets : NewInstance(k)

\* The store under one string_key, and the caller changing objects that
\* the store may hold.
NextAlias ==
    \/ \E create \in BOOLEAN, fault \in Faults, salt \in Salts :
          Load(create, fault, salt)
    \/ \E fault \in Faults, salt \in Salts : Save(fault, salt)
    \/ \E name \in ProxyNames, k \in Keys, v \in Vals : MapOp(name, k, v)
    \/ NewInstance(string_key)
    \/ \E depth \in {"top", "nested"} : MutateDefault(depth)
    \/ MutateStored

Spec == Init /\ [][Next]_vars
SpecDisk == InitDisk /\ [][Next]_vars
SpecKeys == InitKeys /\ [][Next]_vars
SpecResave == InitResave /\ [][Next]_vars
SpecCrash == InitCrash /\ [][Next]_vars
SpecAlias == InitAlias /\ [][NextAlias]_vars

\* ------------------------------------------------------------- claims
\* What a new object with secret k gets from load on the files as they are.
FreshLoad(k) == load(NewStore(k), Disk, TRUE, "none", 0)

\* What this object gets from load on the files as they are.
Reload == load(Store, Disk, TRUE, "none", 0)

StrKeys(d) == \A k \in DOMAIN d.items : k[1] = "str"
AsJsonReads(d) == json_loads(json_dumps(d))

RotationSaved ==
    /\ encryption /\ last.op = "save" /\ last.err = "none"
    /\ loadKey # {} /\ string_key \notin loadKey

\* C3 as stated: after a rotation, a new object with the new secret loads
\* a mapping equal to the saved one, and one with the old secret fails.
C3_Original ==
    RotationSaved =>
        /\ FreshLoad(string_key).err = "none"
        /\ FreshLoad(string_key).st.db = db
        /\ \A k \in loadKey : FreshLoad(k).err # "none"

\* C3, amended: after a rotation, a new object with the new secret loads
\* the saved mapping as JSON reads it back (every key a string), which
\* equals the saved mapping when all its keys are strings; a new object
\* with the old secret fails to load.
C3_KeyRotation ==
    RotationSaved =>
        /\ FreshLoad(string_key).err = "none"
        /\ FreshLoad(string_key).st.loaded
        /\ FreshLoad(string_key).st.db = AsJsonReads(db)
        /\ StrKeys(db) => FreshLoad(string_key).st.db = db
        /\ \A k \in loadKey : FreshLoad(k).err = "DecryptError"

C3_Witness ==
    /\ RotationSaved /\ last.regen /\ last.verdict = "InvalidKey"
    /\ db # EmptyDict /\ StrKeys(db)

\* A store whose last load (or creation) returned under the secret it
\* still holds, and whose save has just completed.
SavedUnderLoadKey ==
    /\ encryption /\ last.op = "save" /\ last.err = "none"
    /\ loadKey = {string_key}

\* C4 as stated: a new object with the same secret loads a mapping equal
\* to the saved one; with a different secret the load fails, DecryptError.
C4_Original ==
    SavedUnderLoadKey =>
        /\ FreshLoad(string_key).err = "none"
        /\ FreshLoad(string_key).st.db = db
        /\ \A k \in Secrets \ {string_key} : FreshLoad(k).err = "DecryptError"

\* C4, amended: a new object with the same secret loads the saved mapping
\* as JSON reads it back (every key a string), which equals the saved
\* mapping when all its keys are strings; with a different secret the
\* load fails with DecryptError.
C4_EncryptedRoundTrip ==
    SavedUnderLoadKey =>
        /\ FreshLoad(string_key).err = "none"
        /\ FreshLoad(string_key).st.db = AsJsonReads(db)
        /\ StrKeys(db) => FreshLoad(string_key).st.db = db
        /\ \A k \in Secrets \ {string_key} : FreshLoad(k).err = "DecryptError"

C4_Witness ==
    /\ SavedUnderLoadKey /\ db # EmptyDict /\ StrKeys(db)
    /\ dataFile.content = encrypt(crypto_data, encode(json_dumps(db)))

\* C5 as stated: on a plain store, a load after a completed save yields a
\* mapping equal to the one saved, on this object or on a new one,
\* whatever was done to the mapping in memory since.
C5_Original ==
    (~encryption /\ savedDb # {}) =>
        \A m \in savedDb :
            /\ Reload.err = "none" /\ Reload.st.db = m
            /\ FreshLoad(string_key).err = "none" /\ FreshLoad(string_key).st.db = m

\* C5, amended: the load yields the saved mapping as JSON reads it back
\* (every key a string), which equals the saved mapping when all its keys
\* are strings.
C5_PlainRoundTrip ==
    (~encryption /\ savedDb # {}) =>
        \A m \in savedDb :
            /\ Reload.err = "none" /\ Reload.st.db = AsJsonReads(m)
            /\ FreshLoad(string_key).err = "none"
            /\ FreshLoad(string_key).st.db = AsJsonReads(m)
            /\ StrKeys(m) => (Reload.st.db = m /\ FreshLoad(string_key).st.db = m)

\* A non-empty mapping was saved and the mapping in memory changed since.
C5_Witness ==
    /\ ~encryption /\ savedDb # {} /\ db \notin savedDb /\ db # None
    /\ \A m \in savedDb : m # EmptyDict /\ StrKeys(m)

\* C6: whenever loaded is false, save fails with NotLoaded and writes no
\* file.
C6_SaveNeedsLoaded ==
    (last.op = "save" /\ ~loaded) =>
        (last.err = "NotLoaded" /\ last.writes = <<>>)

\* C7: load (create_if_nonexistent = False) with no data file fails with
\* NotFound, writes no file, and leaves loaded and the mapping as they were.
C7_CreationRefusal ==
    [][(last'.op = "load" /\ ~last'.create /\ dataFile.kind = "absent") =>
        /\ last'.err = "NotFound"
        /\ last'.writes = <<>> /\ ~last'.ran
        /\ dataFile' = dataFile /\ metaFile' = metaFile
        /\ loaded' = loaded /\ db' = db
      ]_vars

C7_Witness ==
    /\ last.op = "load" /\ ~last.create /\ last.err = "NotFound"
    /\ dataFile.kind = "absent" /\ metaFile.kind = "absent"

\* C8: load (create_if_nonexistent = True) with no data file and the
\* default {}, when no file operation raises, ends with loaded = True, an
\* empty mapping, a new data file holding the serialized (encrypted, when
\* encryption is on) empty mapping and, when encryption is on, a new crypto
\* data file made from string_key without the check of string_key.
C8_CreationDefault ==
    [][(/\ last'.op = "load" /\ last'.create /\ dataFile.kind = "absent"
        /\ default = EmptyDict /\ last'.err # "IOError") =>
        /\ last'.err = "none"
        /\ loaded' /\ db' = EmptyDict
        /\ dataFile'.kind = "file"
        /\ ~encryption =>
              dataFile'.content = PlainText(json_dumps(EmptyDict))
        /\ encryption =>
              /\ \E salt \in Salts : crypto_data' = make_new(string_key, salt)
              /\ dataFile'.content =
                     encrypt(crypto_data', encode(json_dumps(EmptyDict)))
              /\ metaFile.kind = "absent"
              /\ metaFile' = RegularFile(interop_dump(crypto_data'))
              /\ last'.verdict = "skipped" /\ last'.regen
      ]_vars

C8_Witness ==
    /\ last.op = "load" /\ last.create /\ last.err = "none" /\ last.ran
    /\ last.verdict = "skipped" /\ last.regen
    /\ encryption /\ default = EmptyDict /\ db = EmptyDict /\ loaded
    /\ metaFile = RegularFile(interop_dump(crypto_data))

\* The crypto data and _new that the save of a step saw: those of the
\* object for save (), those load set before its own call of save.
SeenCrypto ==
    IF last'.op = "save" THEN crypto_data
    ELSE interop_load(metaFile.content, string_key)
SeenNew == last'.op = "load" /\ dataFile.kind = "absent"

\* C9: an encrypted save regenerates crypto_data from string_key exactly
\* when _new is true or the check of string_key fails with InvalidKey; when
\* _new is false and the check succeeds, crypto_data is left as it was and
\* is what encrypts the data file and what the crypto data file receives.
C9_RegenerateIff ==
    [][(/\ encryption /\ last'.op \in {"save", "load"} /\ last'.ran
        /\ last'.err \in {"none", "IOError"}) =>
        LET verdict == check_string_key(SeenCrypto, string_key)
        IN  /\ last'.regen <=> (SeenNew \/ verdict = "InvalidKey")
            /\ last'.regen =>
                  \E salt \in Salts : crypto_data' = make_new(string_key, salt)
            /\ (~SeenNew /\ verdict = "ok") =>
                  /\ crypto_data' = SeenCrypto
                  /\ Has(last'.writes, "data") =>
                        dataFile'.content =
                            encrypt(SeenCrypto, encode(json_dumps(db')))
                  /\ Has(last'.writes, "meta") =>
                        metaFile'.content = interop_dump(SeenCrypto)
      ]_vars

\* A save that found string_key changed and completed.
C9_Witness ==
    /\ encryption /\ last.op = "save" /\ last.err = "none"
    /\ last.verdict = "InvalidKey" /\ last.regen
    /\ check_string_key(crypto_data, string_key) = "ok"

\* C10: when the check of string_key raises anything but InvalidKeyError,
\* save raises that error, crypto_data is not regenerated and no file is
\* written.
C10_OtherErrorPropagates ==
    [][(/\ encryption /\ last'.op \in {"save", "load"} /\ last'.ran
        /\ last'.fault = "verify" /\ SeenCrypto # NoCrypto) =>
        /\ last'.err = "ProviderError"
        /\ ~last'.regen
        /\ crypto_data' = SeenCrypto
        /\ last'.writes = <<>>
        /\ dataFile' = dataFile /\ metaFile' = metaFile
      ]_vars

\* The check raised in a save on a store whose string_key had changed.
C10_Witness ==
    /\ encryption /\ last.op = "save" /\ last.fault = "verify"
    /\ last.err = "ProviderError"
    /\ check_string_key(crypto_data, string_key) = "InvalidKey"


\* C11: a forwarded mapping operation, whichever of the fifteen it is and
\* whether it succeeds or raises, leaves the data file, the crypto data
\* file, loaded, string_key and crypto_data as they were; so after any run
\* of mapping operations the files are what the last save or load left.
C11_MappingTouchesNothingElse ==
    [][last'.op = "proxy" =>
          /\ dataFile' = dataFile
          /\ metaFile' = metaFile
          /\ loaded' = loaded
          /\ string_key' = string_key
          /\ crypto_data' = crypto_data]_vars

\* A mapping operation has changed the mapping away from what the data
\* file holds.
C11_Witness ==
    /\ last.op = "proxy"
    /\ last.err = "none"
    /\ ~encryption
    /\ dataFile.kind = "file"
    /\ dataFile.content # PlainText(save_plain_text(Store))

\* C12: a save that completes directly after a save that completed, the
\* mapping and string_key not touched in between, leaves the data file and
\* the crypto data file exactly as the first one wrote them and does not
\* replace crypto_data.
C12_ResaveIdempotent ==
    [][streak' = 2 =>
          /\ dataFile' = dataFile
          /\ metaFile' = metaFile
          /\ ~last'.regen
          /\ crypto_data' = crypto_data]_vars

\* An encrypted store with a non-empty mapping has been saved twice in a
\* row.
C12_Witness ==
    /\ streak = 2
    /\ last.op = "save"
    /\ encryption
    /\ db \notin {None, EmptyDict}

\* C13: in every reachable state, whatever the default and however the
\* last load ended, loaded = TRUE implies that the mapping is populated.
C13_LoadedImpliesMapping == loaded => db # None

\* C14: a mapping operation called while loaded is FALSE raises, and
\* changes neither the mapping nor a file; also after a load that raised
\* partway.
C14_MappingNeedsLoaded ==
    [][(last'.op = "proxy" /\ ~loaded) =>
          /\ last'.err # "none"
          /\ db' = db
          /\ dataFile' = dataFile
          /\ metaFile' = metaFile]_vars

\* C15: a load of an existing data file that returns: on an encrypted
\* store it has run a save with _new False that wrote the data file and
\* then the crypto data file, and the crypto data file verifies
\* string_key; on a plain store it has written nothing.
C15_LoadResaves ==
    [][(last'.op = "load" /\ last'.err = "none" /\ dataFile.kind = "file") =>
          IF encryption
          THEN /\ last'.writes = <<"data", "meta">>
               /\ last'.verdict # "skipped"
               /\ dataFile' = RegularFile(
                      encrypt(crypto_data', encode(json_dumps(db'))))
               /\ metaFile' = RegularFile(interop_dump(crypto_data'))
               /\ check_string_key(
                      interop_load(metaFile'.content, string_key'),
                      string_key') = "ok"
          ELSE /\ last'.writes = <<>>
               /\ dataFile' = dataFile
               /\ metaFile' = metaFile]_vars

\* An encrypted store has loaded an existing data file and written both
\* files again.
C15_Witness ==
    /\ encryption
    /\ last.op = "load"
    /\ ~last.create
    /\ last.err = "none"
    /\ last.verdict = "ok"
    /\ last.writes = <<"data", "meta">>
    /\ db # EmptyDict

\* The ways a load of an existing data file on an encrypted store raises
\* before it comes to its save.
ReadErrors == {"FileNotFoundError", "MetadataError", "DecryptError", "Corrupt"}

\* C18: a load of an existing data file on an encrypted store that raises
\* because the crypto data file is missing or rejected, because decryption
\* fails (wrong string_key, crypto data that does not match) or because
\* the text is not JSON, writes neither file.
C18_FailedLoadWritesNothing ==
    [][(encryption /\ last'.op = "load" /\ dataFile.kind = "file"
          /\ last'.err \in ReadErrors) =>
          /\ dataFile' = dataFile
          /\ metaFile' = metaFile
          /\ last'.writes = <<>>]_vars

\* A store that holds a mapping has tried to load under a string_key the
\* files were not written with.
C18_Witness ==
    /\ encryption
    /\ last.op = "load"
    /\ last.err = "DecryptError"
    /\ db # None
    /\ dataFile.kind = "file"
    /\ metaFile.kind = "file"

\* The files as they would be if a crypto data file were there.
DiskWithMeta ==
    [Disk EXCEPT !.meta = RegularFile(interop_dump(make_new(string_key, 0)))]

\* C16: a store without encryption never writes the crypto data file and
\* never makes crypto_data; what load does is the same whether or not a
\* crypto data file is there; the data file holds the JSON text of a
\* mapping and nothing else; save writes the same with _new True as with
\* _new False.
C16_PlainStoreNoCrypto ==
    ~encryption =>
        /\ metaFile = AbsentMeta
        /\ crypto_data = NoCrypto
        /\ dataFile.kind = "file" =>
              \E d \in Dicts : dataFile.content = PlainText(json_dumps(d))
        /\ \A create \in BOOLEAN :
              load(Store, DiskWithMeta, create, "none", 0).st
                  = load(Store, Disk, create, "none", 0).st
        /\ save(Store, Disk, TRUE, "none", 0).dk
              = save(Store, Disk, FALSE, "none", 0).dk

\* A store without encryption has saved a mapping that is not empty.
C16_Witness ==
    /\ ~encryption
    /\ last.op = "save"
    /\ last.err = "none"
    /\ db \notin {None, EmptyDict}
    /\ dataFile = RegularFile(PlainText(json_dumps(db)))

\* C19: a load that raises, for whatever reason and on a store that was
\* loaded before or not, leaves loaded, the mapping and crypto_data as
\* they were before the call.
C19_FailedLoadChangesNothing ==
    [][(last'.op = "load" /\ last'.err # "none") =>
          /\ loaded' = loaded
          /\ db' = db
          /\ crypto_data' = crypto_data]_vars

\* An encrypted save that kept crypto_data, string_key being the one of
\* the last completed save, has written the data file and raised before
\* writing the crypto data file.
CrashedBetweenFiles ==
    /\ encryption
    /\ last.op = "save"
    /\ last.err = "IOError"
    /\ last.writes = <<"data">>
    /\ ~last.regen
    /\ steadyKey = {string_key}

\* C20: after such a save the files are still consistent: a new object
\* with the same string_key loads them and gets the mapping that was
\* being saved (stated for mappings whose keys are all strings, which JSON
\* reads back as they are).
C20_CrashedSaveStillLoads ==
    (CrashedBetweenFiles /\ StrKeys(db)) =>
        /\ FreshLoad(string_key).err = "none"
        /\ FreshLoad(string_key).st.db = db

\* What a load of the existing data file reads from it.
FileMapping ==
    IF encryption
    THEN json_loads(decode(decrypt(
             interop_load(metaFile.content, string_key), dataFile.content).bytes))
    ELSE json_loads(dataFile.content.body)

\* C17: the mapping that the creation path of load sets is a deep copy of
\* the default: it equals the default; a later change of the caller's
\* default object, at the top or in a nested value, changes neither the
\* store's mapping nor what a save then writes; a change of the store's
\* mapping, by a forwarded method or in a nested value, does not change
\* the default; a load of an existing data file sets what the file holds,
\* whatever the default.
C17_DefaultDeepCopied ==
    [][/\ (last'.op = "load" /\ dataFile.kind = "absent" /\ last'.create)
             => db' = default
       /\ last'.op = "mutate_default" =>
             /\ db' = db
             /\ save(Store, Disk, FALSE, "none", 0).dk'
                    = save(Store, Disk, FALSE, "none", 0).dk
       /\ last'.op \in {"proxy", "mutate_stored"} => default' = default
       /\ (last'.op = "load" /\ dataFile.kind = "file" /\ last'.err = "none")
             => db' = FileMapping]_vars

\* After a load has created the data file from the default, the caller
\* has changed the nested value of the default object, and the store's
\* mapping still holds the value as it was.
C17_Witness ==
    /\ last.op = "mutate_default"
    /\ loaded
    /\ dataFile.kind = "file"
    /\ db = NestedDefault
    /\ default = AppendNested(NestedDefault)
====
